---- MODULE Spec2Model ----
(***************************************************************************)
(* GCodeReader of motion_minder: the G-code distance accumulator.          *)
(*                                                                         *)
(* A G-code file is a sequence of lines; a line is a command token and a   *)
(* sequence of parameter tokens separated by single spaces.  Every line    *)
(* but possibly the last one ends with a newline.  read() scans the file   *)
(* line by line; one loop iteration of read() is one step of the model.    *)
(* Coordinates are integers (the code computes in floats; the values used  *)
(* here are exactly representable, so the arithmetic is the same).         *)
(***************************************************************************)
EXTENDS Integers, Sequences, FiniteSets, TLC

\* Longest file, in lines.
MaxLines == 3

----------------------------------------------------------------------------
(* Text of a file *)

\* A parameter token: its first character (sel, "" for an empty token), the
\* text that follows it (rest), whether Python's float() accepts that text
\* (isFloat) and, when it does, its value (val).
Tok(sel, rest, isFloat, val) ==
    [sel |-> sel, rest |-> rest, isFloat |-> isFloat, val |-> val]

Num(sel, rest, val) == Tok(sel, rest, TRUE, val)
Txt(sel, rest) == Tok(sel, rest, FALSE, 0)
EmptyTok == Tok("", "", FALSE, 0)

Line(cmd, values) == [cmd |-> cmd, values |-> values]

\* The lines files are made of (the text of each is in its comment).
Vocabulary ==
    { Line("G91", <<Txt(";", "r")>>),                       \* "G91 ;r"
      Line("M83", <<Txt(";", "r")>>),                       \* "M83 ;r"
      Line("G90", <<>>),                                    \* "G90"
      Line("G1", <<Num("X", "10", 10), Num("E", "5", 5)>>), \* "G1 X10 E5"
      Line("G1", <<Num("X", "20", 20), Num("E", "5", 5)>>), \* "G1 X20 E5"
      Line("G0", <<Txt("X", "ABC"), Num("Y", "-4", -4),
                   Num("E", "-2", -2)>>),                   \* "G0 XABC Y-4 E-2"
      Line("G92", <<Num("X", "7", 7), Num("E", "3", 3)>>),  \* "G92 X7 E3"
      Line("G1", <<EmptyTok, Num("Z", "2", 2), EmptyTok>>), \* "G1  Z2 "
      Line("M104", <<Num("S", "200", 200)>>) }              \* "M104 S200"

\* A file: its lines, and whether the last line ends with a newline.
Files ==
    { [lines |-> ls, nlEnd |-> nl] :
        ls \in UNION { [1..n -> Vocabulary] : n \in 0..MaxLines },
        nl \in BOOLEAN } \ { [lines |-> <<>>, nlEnd |-> FALSE] }

\* The lines of the files that switch modes: each mode command followed by a
\* comment, two of them bare, and two moves.
ModeVocabulary ==
    { Line("G90", <<Txt(";", "a")>>),                       \* "G90 ;a"
      Line("G91", <<Txt(";", "r")>>),                       \* "G91 ;r"
      Line("M82", <<Txt(";", "a")>>),                       \* "M82 ;a"
      Line("M83", <<Txt(";", "r")>>),                       \* "M83 ;r"
      Line("G91", <<>>),                                    \* "G91"
      Line("M82", <<>>),                                    \* "M82"
      Line("G1", <<Num("X", "10", 10), Num("E", "5", 5)>>), \* "G1 X10 E5"
      Line("G0", <<Txt("X", "ABC"), Num("Y", "-4", -4),
                   Num("E", "-2", -2)>>) }                  \* "G0 XABC Y-4 E-2"

ModeFiles ==
    { [lines |-> ls, nlEnd |-> nl] :
        ls \in UNION { [1..n -> ModeVocabulary] : n \in 0..MaxLines },
        nl \in BOOLEAN } \ { [lines |-> <<>>, nlEnd |-> FALSE] }

\* Line i of file f ends with "\n".
HasNewline(f, i) == i < Len(f.lines) \/ f.nlEnd

RECURSIVE ValuesLen(_)
ValuesLen(values) ==
    IF values = <<>> THEN 0
    ELSE 1 + Len(Head(values).sel) + Len(Head(values).rest)
           + ValuesLen(Tail(values))

\* Bytes of line i of file f, the newline included.
LineLen(f, i) ==
    Len(f.lines[i].cmd) + ValuesLen(f.lines[i].values)
    + (IF HasNewline(f, i) THEN 1 ELSE 0)

\* file.tell() after n lines were read.
RECURSIVE Offset(_, _)
Offset(f, n) == IF n = 0 THEN 0 ELSE Offset(f, n - 1) + LineLen(f, n)

----------------------------------------------------------------------------
(* GCodeReader *)

VALID_COMMANDS == {"G90", "G91", "G92", "G1", "G0", "M82", "M83"}

Axes == {"x", "y", "z", "e"}
Linear == {"x", "y", "z"}
Upper(a) == CASE a = "x" -> "X" [] a = "y" -> "Y" [] a = "z" -> "Z" [] a = "e" -> "E"

Zero == [a \in Axes |-> 0]
Abs(v) == IF v < 0 THEN -v ELSE v

\* An optional argument: {} is None, {v} is the value v.
NoArg == {}
FilePositions == {-1, 7, 10, 20}
MaxExtrusions == {0, 3}

VARIABLES
    file,             \* the file behind self._file
    nread,            \* lines read so far: self._file.tell() = Offset(file, nread)
    mode,             \* self._mode
    extruder_mode,    \* self._extruder_mode
    last_positions,   \* self._last_positions
    total_distances,  \* self._total_distances
    pc,               \* "idle": no call of read() is running; "read": in its loop
    file_position,    \* argument of the running call
    max_extrusion,    \* argument of the running call
    distances,        \* local of the running call
    result,           \* how the last call ended, and what it returned
    start,            \* nread when the last call began
    diff_dist,        \* what the caller has summed of the values returned
    seq               \* the file_position arguments so far, summarised

\* The Klipper plugin (MotionMinder of src/motion_minder.py).
VARIABLES
    odometer,         \* self._odometer
    position,         \* self._position
    update_db,        \* self._update_db
    ignore_position,  \* self._ignore_position
    db,               \* the shelve database: the values stored under its keys
    thread,           \* where _motion_minder_thread is: "sleep", "write", "clear"
    handler,          \* where the running MOTION_MINDER command is: "idle" when
                      \* none runs, "store" and "maintain" before the lock of
                      \* _set_odometer and _set_maintenance, "query", "stored"
                      \* and "maintained" before the one of _return_odometer
    pending,          \* what the rest of the running command reads of its _Args
    outcome,          \* what the last call on the reactor thread did outwardly
    ncalls            \* toolhead.move calls and MOTION_MINDER commands so far

\* The companion process: MoonrakerInterface.
VARIABLES
    subscribed,       \* self._subscribed
    routine,          \* where _check_klipper_state_routine is: "test" before
                      \* `if not self._subscribed`, "get" before the request
                      \* of /server/info, "subscribe" before self._subscribe,
                      \* "set" before `self._subscribed = True`, "sleep"
    klippy_state,     \* what /server/info answers now
    inbox,            \* the websocket messages received and not yet processed
    opened,           \* the websocket connection is open
    lost,             \* a notify_klippy_disconnected was processed and no
                      \* printer.objects.subscribe request was sent since
    ndisconnects      \* how often Klipper has disconnected

\* The companion process: PrinterOdometer of
\* src/motion_minder/printer_odometer.py, and the database of the server that
\* it and the command line write through MotionMinder.
VARIABLES
    po_diff_dist,     \* self._diff_dist of PrinterOdometer
    last_position,    \* self._last_position: {} is None
    printing_file,    \* self._printing_file: {} is None, or the open reader
    homed_axis,       \* self._homed_axis: the letters of the string
    axis_limits,      \* self._axis_min and self._axis_max: {} when both are
                      \* [None, None, None]
    database,         \* the database: what is under odometer_x, odometer_y and
                      \* odometer_z ({} when the key does not exist)
    travelled,        \* what the database held at first, plus every distance
                      \* accumulated since
    unclosed,         \* the readers _process_history opened and did not close
    lines_read,       \* the lines of the file the last message made read()
                      \* read
    nmessages,        \* messages and command line runs so far
    adders            \* the calls of add_mileage and set_odometer in progress,
                      \* by client

gcode == <<file, nread, mode, extruder_mode, last_positions, total_distances,
           pc, file_position, max_extrusion, distances, result, start,
           diff_dist, seq>>

plugin == <<odometer, position, update_db, ignore_position, db, thread,
            handler, pending, outcome, ncalls>>

\* The subscription of the companion process to the printer's objects
\* (MoonrakerInterface of src/motion_minder/motion_minder.py).
subscription == <<subscribed, routine, klippy_state, inbox, opened, lost,
                  ndisconnects>>

companion == <<po_diff_dist, last_position, printing_file, homed_axis,
               axis_limits, database, travelled, unclosed, lines_read, nmessages,
               adders>>

client == <<subscription, companion>>

vars == <<gcode, plugin, client>>

reader == <<mode, extruder_mode, last_positions, total_distances>>

Tell == Offset(file, nread)

\* command, *values = line.split(" ")
Command(f, i) ==
    IF f.lines[i].values = <<>> /\ HasNewline(f, i)
    THEN f.lines[i].cmd \o "\n"
    ELSE f.lines[i].cmd

\* ParseValues with the subscript value[0] evaluated before float(value[1:]):
\* an empty token raises IndexError.
RECURSIVE ParseValuesSubscriptFirst(_, _, _)
ParseValuesSubscriptFirst(values, nl, moves) ==
    IF values = <<>> THEN [raised |-> FALSE, moves |-> moves]
    ELSE LET value == Head(values)
             last == Len(values) = 1
             text == value.sel \o value.rest \o (IF last /\ nl THEN "\n" ELSE "")
         IN IF text = "" THEN [raised |-> TRUE, moves |-> moves]
            ELSE IF value.isFloat
                 THEN ParseValuesSubscriptFirst(Tail(values), nl,
                                  (value.sel :> value.val) @@ moves)
                 ELSE ParseValuesSubscriptFirst(Tail(values), nl, moves)

\* for value in values: try: moves[value[0]] = float(value[1:])
\*                      except ValueError: pass
\* Python evaluates the right-hand side first: float(value[1:]) raises
\* ValueError, which is caught, for every text that is no float, the empty
\* one included (float() strips the newline the last token of a line holds).
\* value[0] is evaluated next, and would raise IndexError, which is not
\* caught, on an empty token; a token whose value[1:] is a float is not empty.
\* The result is the moves dictionary, as a function from the selectors it
\* holds to their values, and whether IndexError was raised.
RECURSIVE ParseValues(_, _, _)
ParseValues(values, nl, moves) ==
    IF values = <<>> THEN [raised |-> FALSE, moves |-> moves]
    ELSE LET value == Head(values)
             last == Len(values) = 1
             text == value.sel \o value.rest \o (IF last /\ nl THEN "\n" ELSE "")
         IN IF ~value.isFloat
            THEN ParseValues(Tail(values), nl, moves)
            ELSE IF text = "" THEN [raised |-> TRUE, moves |-> moves]
                 ELSE ParseValues(Tail(values), nl,
                                  (value.sel :> value.val) @@ moves)

Parse(f, i) == ParseValues(f.lines[i].values, HasNewline(f, i), <<>>)

Named(moves, a) == Upper(a) \in DOMAIN moves

\* Delta without abs(): the signed difference in absolute mode.
DeltaSigned(m, current_value, last) ==
    IF m = "absolute" THEN current_value - last ELSE current_value

\* Delta with abs() of the difference in both modes.
DeltaAlwaysAbs(m, current_value, last) == Abs(current_value - last)

\* abs(current_value - last) if mode == "absolute" else current_value
Delta(m, current_value, last) ==
    IF m = "absolute" THEN Abs(current_value - last) ELSE current_value

\* MoveTotals with += for "e" too.
MoveTotalsSummed(m, em, last, total, moves) ==
    [a \in Axes |->
        IF ~(Upper(a) \in DOMAIN moves) THEN total[a]
        ELSE total[a] + (IF (IF a = "e" THEN em ELSE m) = "absolute"
                         THEN Abs(moves[Upper(a)] - last[a])
                         ELSE moves[Upper(a)])]

\* self._total_distances[axis.lower()] += ... ; for "e" it is assigned
MoveTotals(m, em, last, total, moves) ==
    [a \in Axes |->
        IF ~Named(moves, a) THEN total[a]
        ELSE IF a = "e" THEN Delta(em, moves["E"], last["e"])
        ELSE total[a] + Delta(m, moves[Upper(a)], last[a])]

\* self._last_positions[axis.lower()] = moves[axis]
SetPositions(last, moves) ==
    [a \in Axes |-> IF Named(moves, a) THEN moves[Upper(a)] ELSE last[a]]

\* ResetPositions that also re-origins the axes G92 does not name.
ResetPositionsAll(last, moves) ==
    [a \in Axes |-> IF Named(moves, a) THEN moves[Upper(a)] ELSE 0]

\* G92: for axis in ["X", "Y", "Z", "E"]: if axis in moves:
\*          self._last_positions[axis.lower()] = moves[axis]
ResetPositions(last, moves) == SetPositions(last, moves)

\* Apply with M82 and M83 switching the linear mode too.
ApplyExtruderSwitchesBoth(s, command, moves) ==
    CASE command \in {"G90", "M82"} ->
            [s EXCEPT !.mode = "absolute", !.extruder_mode = "absolute"]
      [] command \in {"G91", "M83"} ->
            [s EXCEPT !.mode = "relative", !.extruder_mode = "relative"]
      [] command \in {"G1", "G0"} ->
            [s EXCEPT !.total = MoveTotals(s.mode, s.extruder_mode, s.last, s.total, moves),
                      !.last = SetPositions(s.last, moves)]
      [] command = "G92" -> [s EXCEPT !.last = ResetPositions(s.last, moves)]

\* Apply with G92 setting both modes back to absolute.
ApplyResetSwitchesMode(s, command, moves) ==
    CASE command = "G90" -> [s EXCEPT !.mode = "absolute", !.extruder_mode = "absolute"]
      [] command = "G91" -> [s EXCEPT !.mode = "relative", !.extruder_mode = "relative"]
      [] command = "M82" -> [s EXCEPT !.extruder_mode = "absolute"]
      [] command = "M83" -> [s EXCEPT !.extruder_mode = "relative"]
      [] command \in {"G1", "G0"} ->
            [s EXCEPT !.total = MoveTotals(s.mode, s.extruder_mode, s.last, s.total, moves),
                      !.last = SetPositions(s.last, moves)]
      [] command = "G92" ->
            [s EXCEPT !.last = ResetPositions(s.last, moves),
                      !.mode = "absolute", !.extruder_mode = "absolute"]

\* The reader after the command of a recognized line.
Apply(s, command, moves) ==
    CASE command = "G90" -> [s EXCEPT !.mode = "absolute", !.extruder_mode = "absolute"]
      [] command = "G91" -> [s EXCEPT !.mode = "relative", !.extruder_mode = "relative"]
      [] command = "M82" -> [s EXCEPT !.extruder_mode = "absolute"]
      [] command = "M83" -> [s EXCEPT !.extruder_mode = "relative"]
      [] command \in {"G1", "G0"} ->
            [s EXCEPT !.total = MoveTotals(s.mode, s.extruder_mode, s.last, s.total, moves),
                      !.last = SetPositions(s.last, moves)]
      [] command = "G92" -> [s EXCEPT !.last = ResetPositions(s.last, moves)]

Self == [mode |-> mode, extruder_mode |-> extruder_mode,
         last |-> last_positions, total |-> total_distances]

\* LimitReached with > for >=.
LimitPassed(fp, tell) == \E p \in fp : tell > p

\* file_position is not None and self._file.tell() >= file_position
LimitReached(fp, tell) == \E p \in fp : tell >= p

\* max_extrusion is not None and distances["e"] > max_extrusion
ExtrusionExceeded(me, d) == \E m \in me : d["e"] > m

\* Returned without the subtraction: the lifetime totals.
ReturnedTotals(total, d) == total

\* Returned with the subtraction reversed.
ReturnedReversed(total, d) == [a \in Axes |-> d[a] - total[a]]

\* distances[axis] = self._total_distances[axis] - distances[axis]
Returned(total, d) == [a \in Axes |-> total[a] - d[a]]

NoResult == [kind |-> "none", distances |-> Zero]

\* No plugin runs next to the reader.
NoPlugin ==
    /\ odometer = [a \in Linear |-> 0]
    /\ position = [a \in Linear |-> 0]
    /\ update_db = FALSE
    /\ ignore_position = FALSE
    /\ db = [odometer |-> {}, next_maintenance |-> {}, maintenance |-> {}]
    /\ thread = "sleep"
    /\ handler = "idle"
    /\ pending = [value |-> 0, axes |-> <<>>, relative |-> FALSE, unit |-> {}]
    /\ outcome = [op |-> "none"]
    /\ ncalls = 0

\* No companion process runs.
NoSubscription ==
    /\ subscribed = FALSE
    /\ routine = "sleep"
    /\ klippy_state = "ready"
    /\ inbox = <<>>
    /\ opened = FALSE
    /\ lost = FALSE
    /\ ndisconnects = 0

\* The clients of the database, by name.
Clients == {"companion", "command line"}

\* No call of add_mileage is in progress, and none was made.
NoAdders ==
    [c \in Clients |-> [pc |-> "idle", calls |-> 0, axes |-> <<>>,
                        amounts |-> [a \in Linear |-> 0], value |-> {}]]

\* No PrinterOdometer runs, and nothing writes the database.
NoCompanion ==
    /\ po_diff_dist = [a \in Linear |-> 0]
    /\ last_position = [a \in Linear |-> {}]
    /\ printing_file = {}
    /\ homed_axis = {}
    /\ axis_limits = {}
    /\ database = [a \in Linear |-> {}]
    /\ travelled = [a \in Linear |-> 0]
    /\ unclosed = 0
    /\ lines_read = 0
    /\ nmessages = 0
    /\ adders = NoAdders

NoClient == NoSubscription /\ NoCompanion

Init ==
    /\ file \in Files
    /\ nread = 0
    /\ mode = "absolute"
    /\ extruder_mode = "absolute"
    /\ last_positions = Zero
    /\ total_distances = Zero
    /\ pc = "idle"
    /\ file_position = NoArg
    /\ max_extrusion = NoArg
    /\ distances = Zero
    /\ result = NoResult
    /\ start = 0
    /\ diff_dist = Zero
    /\ seq = [ok |-> TRUE, last |-> NoArg]
    /\ NoPlugin
    /\ NoClient

\* The calls so far are not successive read(file_position=offset) calls with
\* non-decreasing offsets on line boundaries that all returned.
NoSeq == [ok |-> FALSE, last |-> NoArg]

\* Offset p is the start of a line of f, or its end.
OnBoundary(f, p) == \E n \in 0..Len(f.lines) : Offset(f, n) = p

\* The call read(file_position, max_extrusion) begins:
\* distances = self._total_distances.copy()
Read(fp, me) ==
    /\ pc = "idle"
    /\ pc' = "read"
    /\ file_position' = fp
    /\ max_extrusion' = me
    /\ distances' = total_distances
    /\ result' = NoResult
    /\ start' = nread
    /\ seq' = IF /\ seq.ok
                  /\ me = NoArg
                  /\ \E p \in fp : /\ OnBoundary(file, p)
                                    /\ \A q \in seq.last : q <= p
               THEN [ok |-> TRUE, last |-> fp]
               ELSE NoSeq
    /\ UNCHANGED <<file, nread, reader, diff_dist, plugin, client>>

\* The loop is left and read() returns; the caller adds what it returns to
\* its own sums (PrinterOdometer._diff_dist, total_x.. of _process_history).
Return(total) ==
    /\ pc' = "idle"
    /\ result' = [kind |-> "returned", distances |-> Returned(total, distances)]
    /\ diff_dist' = [a \in Axes |-> diff_dist[a] + Returned(total, distances)[a]]
    /\ file_position' = NoArg
    /\ max_extrusion' = NoArg
    /\ UNCHANGED <<file, distances, start, seq, plugin, client>>

\* if file_position is not None and self._file.tell() >= file_position: break
StopAtPosition ==
    /\ pc = "read"
    /\ LimitReached(file_position, Tell)
    /\ Return(total_distances)
    /\ UNCHANGED <<nread, reader>>

\* line = self._file.readline(); if not line: break
EndOfFile ==
    /\ pc = "read"
    /\ ~LimitReached(file_position, Tell)
    /\ nread = Len(file.lines)
    /\ Return(total_distances)
    /\ UNCHANGED <<nread, reader>>

\* SkipLine with break for continue: an unrecognized line ends the call.
SkipLineBreaks ==
    /\ pc = "read"
    /\ ~LimitReached(file_position, Tell)
    /\ nread < Len(file.lines)
    /\ Command(file, nread + 1) \notin VALID_COMMANDS
    /\ nread' = nread + 1
    /\ Return(total_distances)
    /\ UNCHANGED reader

\* if command not in GCodeReader._VALID_COMMANDS: continue
SkipLine ==
    /\ pc = "read"
    /\ ~LimitReached(file_position, Tell)
    /\ nread < Len(file.lines)
    /\ Command(file, nread + 1) \notin VALID_COMMANDS
    /\ nread' = nread + 1
    /\ UNCHANGED <<file, reader, pc, file_position, max_extrusion, distances,
                   result, start, diff_dist, seq, plugin, client>>

\* An exception leaves read(): nothing is returned to the caller.
Raise(error) ==
    /\ pc' = "idle"
    /\ result' = [kind |-> error, distances |-> Zero]
    /\ file_position' = NoArg
    /\ max_extrusion' = NoArg
    /\ seq' = NoSeq
    /\ UNCHANGED <<file, reader, distances, start, diff_dist, plugin, client>>

\* The parameters of a recognized line are parsed and its command applied;
\* then if max_extrusion is not None and distances["e"] > max_extrusion: break
ProcessCommand ==
    /\ pc = "read"
    /\ ~LimitReached(file_position, Tell)
    /\ nread < Len(file.lines)
    /\ Command(file, nread + 1) \in VALID_COMMANDS
    /\ nread' = nread + 1
    /\ IF Parse(file, nread + 1).raised
       THEN Raise("IndexError")
       ELSE LET s == Apply(Self, Command(file, nread + 1),
                           Parse(file, nread + 1).moves)
            IN /\ mode' = s.mode
               /\ extruder_mode' = s.extruder_mode
               /\ last_positions' = s.last
               /\ total_distances' = s.total
               /\ IF ExtrusionExceeded(max_extrusion, distances)
                  THEN Return(s.total)
                  ELSE UNCHANGED <<file, pc, file_position, max_extrusion,
                                   distances, result, start, diff_dist, seq,
                                   plugin, client>>

\* The arguments of read(), as its callers give them: _process_history
\* passes max_extrusion or nothing, PrinterOdometer passes file_position.
Arguments ==
    {<<NoArg, NoArg>>}
    \cup {<<{p}, NoArg>> : p \in FilePositions}
    \cup {<<NoArg, {m}>> : m \in MaxExtrusions}

Next ==
    \/ \E args \in Arguments : Read(args[1], args[2])
    \/ StopAtPosition
    \/ EndOfFile
    \/ SkipLine
    \/ ProcessCommand

Spec == Init /\ [][Next]_vars

\* The same reader on the files that switch modes.
ModeInit ==
    /\ file \in ModeFiles
    /\ nread = 0
    /\ mode = "absolute"
    /\ extruder_mode = "absolute"
    /\ last_positions = Zero
    /\ total_distances = Zero
    /\ pc = "idle"
    /\ file_position = NoArg
    /\ max_extrusion = NoArg
    /\ distances = Zero
    /\ result = NoResult
    /\ start = 0
    /\ diff_dist = Zero
    /\ seq = [ok |-> TRUE, last |-> NoArg]
    /\ NoPlugin
    /\ NoClient

ModeSpec == ModeInit /\ [][Next]_vars

----------------------------------------------------------------------------
(* The Klipper plugin: _Args and MotionMinder of src/motion_minder.py *)

\* Most calls of a run, toolhead.move calls and MOTION_MINDER commands.
MaxCalls == 3

AxisLetters == <<"x", "y", "z">>
ZeroOdometer == [a \in Linear |-> 0]
NoneByAxis == [a \in Linear |-> {}]

\* _UNIT_CONVERSION_FACTORS.get(unit, 1)
UNIT_CONVERSION_FACTORS(unit) ==
    CASE unit = "mm" -> 1
      [] unit = "m" -> 1000
      [] unit = "km" -> 1000000
      [] OTHER -> 1

\* _convert_unit_to_mm
ConvertUnitToMm(value, unit) == value * UNIT_CONVERSION_FACTORS(unit)

\* str.lower() of the texts the commands below are made of.
Lower(text) ==
    CASE text = "X" -> "x"
      [] text = "Y" -> "y"
      [] text = "M" -> "m"
      [] text = "NO" -> "no"
      [] OTHER -> text

\* The parameters of a MOTION_MINDER command as klippy hands them over: each
\* of the five is given ({v}) or not ({}); AXES is a sequence of characters;
\* others are the further parameter names of the command line.
Gcmd(set_odometer, set_maintenance, axes, unit, relative, others) ==
    [SET_ODOMETER |-> set_odometer, SET_MAINTENANCE |-> set_maintenance,
     AXES |-> axes, UNIT |-> unit, RELATIVE |-> relative, others |-> others]

\* Commands without a defect in one parameter: a query or SET_ODOMETER=3,
\* on all axes in the default unit or on "Yz" in "M", with RELATIVE given or
\* not, and SET_MAINTENANCE=4.
PlainCommands ==
    { Gcmd({3}, {}, k[1], k[2], rel, {}) :
        k \in {<<{}, {}>>, <<{<<"Y", "z">>}, {"M"}>>},
        rel \in {{}, {"true"}, {"NO"}} }
    \cup { Gcmd({}, {}, {}, {}, {}, {}),
           Gcmd({}, {}, {}, {}, {"true"}, {}),
           Gcmd({}, {}, {<<"Y", "z">>}, {"M"}, {"NO"}, {}),
           Gcmd({}, {4}, {<<"x">>}, {"M"}, {}, {}),
           Gcmd({}, {4}, {}, {}, {"true"}, {}) }

\* Commands with a defect: an unknown parameter, an axis that is none of x,
\* y, z, an axis given twice, an unknown unit, a RELATIVE that is no
\* boolean, both SET_ODOMETER and SET_MAINTENANCE.
DefectiveCommands ==
    { Gcmd({}, {}, {}, {}, {}, {"FOO"}),
      Gcmd({3}, {}, {<<"x", "w">>}, {"mm"}, {}, {}),
      Gcmd({}, {4}, {<<"x", "X">>}, {}, {"true"}, {}),
      Gcmd({3}, {}, {<<"x">>}, {"cm"}, {}, {}),
      Gcmd({3}, {}, {}, {"mm"}, {"maybe"}, {}),
      Gcmd({3}, {4}, {<<"x">>}, {"mm"}, {}, {}),
      Gcmd({3}, {4}, {}, {}, {"true"}, {}) }

Commands == PlainCommands \cup DefectiveCommands

\* gcmd.get_command_parameters(): the names of the parameters given.
CommandParameters(gcmd) ==
    { name \in {"SET_ODOMETER", "SET_MAINTENANCE", "AXES", "UNIT", "RELATIVE"} :
        gcmd[name] # {} } \cup gcmd.others

\* A Python value that is a bool or a str (self.relative).
Bool(b) == [type |-> "bool", bool |-> b, str |-> ""]
Str(text) == [type |-> "str", bool |-> FALSE, str |-> text]
Truthy(value) == IF value.type = "bool" THEN value.bool ELSE value.str # ""

LowerAll(chars) == [i \in DOMAIN chars |-> Lower(chars[i])]

\* _Args.__init__, before self._validate()
Args(gcmd) ==
    [set_odometer |-> gcmd.SET_ODOMETER,
     set_maintenance |-> gcmd.SET_MAINTENANCE,
     axes |-> IF gcmd.AXES = {} THEN AxisLetters
              ELSE LowerAll(CHOOSE chars \in gcmd.AXES : TRUE),
     unit |-> { Lower(text) : text \in gcmd.UNIT },
     relative |-> IF gcmd.RELATIVE = {} THEN Bool(FALSE)
                  ELSE Str(CHOOSE text \in gcmd.RELATIVE : TRUE)]

\* The validators: each gives the errors it raises, {} when it raises none.
ValAxes(a) ==
    IF \E i \in DOMAIN a.axes : a.axes[i] \notin {"x", "y", "z"}
    THEN {"Invalid axis."}
    ELSE IF Len(a.axes) # Cardinality({ a.axes[i] : i \in DOMAIN a.axes })
         THEN {"Duplicate axes."}
         ELSE {}

ValInputParameters(gcmd) ==
    IF CommandParameters(gcmd) \subseteq
           {"SET_ODOMETER", "SET_MAINTENANCE", "AXES", "UNIT", "RELATIVE"}
    THEN {}
    ELSE {"Invalid parameter."}

TrueValues == {"true", "yes", "1"}
FalseValues == {"false", "no", "0"}

\* self.relative after the first if of _val_relative, when it does not raise.
Relative(a) ==
    IF a.relative.type = "str"
    THEN Bool(Lower(a.relative.str) \in TrueValues)
    ELSE a.relative

\* _val_relative: the second test reads self.relative after the first if has
\* replaced an accepted text by a bool.
ValRelative(a) ==
    IF /\ a.relative.type = "str"
       /\ Lower(a.relative.str) \notin TrueValues \cup FalseValues
    THEN {"Invalid value for 'RELATIVE'."}
    ELSE IF /\ a.set_odometer = {}
            /\ a.set_maintenance = {}
            /\ Relative(a).type = "str"
         THEN {"'RELATIVE' can only be used with 'SET_ODOMETER' or 'SET_MAINTENANCE'."}
         ELSE {}

ValSetMaintenance(a) ==
    IF a.set_maintenance # {} /\ a.set_odometer # {}
    THEN {"Only one of 'SET_ODOMETER' or 'SET_MAINTENANCE' can be used."}
    ELSE {}

ValSetOdometer(a) ==
    IF a.set_odometer # {} /\ a.set_maintenance # {}
    THEN {"Only one of 'SET_ODOMETER' or 'SET_MAINTENANCE' can be used."}
    ELSE {}

\* ValUnit that accepts every unit.
ValUnitAny(a) == {}

ValUnit(a) ==
    IF a.unit \subseteq {"mm", "m", "km"} THEN {} ELSE {"Invalid unit."}

\* _validate: the _val_ methods in the order of dir(self), the alphabetical
\* one; the first error raised leaves _Args().
Validators(gcmd) ==
    LET a == Args(gcmd)
    IN << ValAxes(a), ValInputParameters(gcmd), ValRelative(a),
          ValSetMaintenance(a), ValSetOdometer(a), ValUnit(a) >>

Validate(gcmd) ==
    LET raised == Validators(gcmd)
        raising == { i \in DOMAIN raised : raised[i] # {} }
    IN IF raising = {} THEN {}
       ELSE raised[CHOOSE i \in raising : \A j \in raising : i <= j]

\* The _Args of a command that validates.
Validated(gcmd) == [Args(gcmd) EXCEPT !.relative = Relative(Args(gcmd))]

NoArgs == [value |-> 0, axes |-> <<>>, relative |-> FALSE, unit |-> {}]

\* The last call on the reactor thread has not answered, nor moved.
NoOutcome == [op |-> "none"]

\* No reader is open next to the plugin.
NoReader ==
    /\ file = [lines |-> <<>>, nlEnd |-> TRUE]
    /\ nread = 0
    /\ mode = "absolute"
    /\ extruder_mode = "absolute"
    /\ last_positions = Zero
    /\ total_distances = Zero
    /\ pc = "idle"
    /\ file_position = NoArg
    /\ max_extrusion = NoArg
    /\ distances = Zero
    /\ result = NoResult
    /\ start = 0
    /\ diff_dist = Zero
    /\ seq = NoSeq

\* The database when klippy starts: empty, or with an odometer stored.
Stores ==
    { [odometer |-> {}, next_maintenance |-> {}, maintenance |-> {}],
      [odometer |-> {[x |-> 5, y |-> 0, z |-> 1]},
       next_maintenance |-> {}, maintenance |-> {}] }

\* db.get(key, default)
Get(store, key, default) ==
    IF store[key] = {} THEN default ELSE CHOOSE value \in store[key] : TRUE

\* MotionMinder.__init__, and _get_toolhead that wraps toolhead.move
PluginInit ==
    /\ NoReader
    /\ NoClient
    /\ db \in Stores
    /\ odometer = Get(db, "odometer", ZeroOdometer)
    /\ position = ZeroOdometer
    /\ update_db = FALSE
    /\ ignore_position = FALSE
    /\ thread = "sleep"
    /\ handler = "idle"
    /\ pending = NoArgs
    /\ outcome = NoOutcome
    /\ ncalls = 0

\* _home_begin
HomeBegin ==
    /\ handler = "idle"
    /\ ignore_position' = TRUE
    /\ outcome' = NoOutcome
    /\ UNCHANGED <<gcode, client, odometer, position, update_db, db, thread, handler,
                   pending, ncalls>>

\* _home_end
HomeEnd ==
    /\ handler = "idle"
    /\ ignore_position' = FALSE
    /\ outcome' = NoOutcome
    /\ UNCHANGED <<gcode, client, odometer, position, update_db, db, thread, handler,
                   pending, ncalls>>

\* The positions toolhead.move is called with, [x, y, z, e], and the speeds.
NewPositions == {<<2, 3, 0, 1>>, <<0, 3, 1, 2>>}
Speeds == {50}

Index(axis) == CHOOSE i \in DOMAIN AxisLetters : AxisLetters[i] = axis

\* Tracked without the test of _ignore_position.
TrackedAlways(ignore, newpos, odo, pos) ==
    [odometer |-> [a \in Linear |-> odo[a] + Abs(newpos[Index(a)] - pos[a])],
     position |-> [a \in Linear |-> newpos[Index(a)]],
     update_db |-> { TRUE : a \in { b \in Linear : newpos[Index(b)] # pos[b] } }]

\* Tracked without abs(): the signed difference is added.
TrackedSigned(ignore, newpos, odo, pos) ==
    IF ignore
    THEN [odometer |-> odo, position |-> pos, update_db |-> {}]
    ELSE [odometer |-> [a \in Linear |-> odo[a] + (newpos[Index(a)] - pos[a])],
          position |-> [a \in Linear |-> newpos[Index(a)]],
          update_db |-> { TRUE : a \in { b \in Linear : newpos[Index(b)] # pos[b] } }]

\* The loop of wrapper: for i, axis in enumerate("xyz"): break when
\* _ignore_position; an axis whose new position differs adds
\* abs(newpos[i] - self._position[axis]) and takes the new position.
\* update_db is {TRUE} when the loop sets self._update_db, {} when not.
Tracked(ignore, newpos, odo, pos) ==
    IF ignore
    THEN [odometer |-> odo, position |-> pos, update_db |-> {}]
    ELSE [odometer |-> [a \in Linear |->
                          IF newpos[Index(a)] # pos[a]
                          THEN odo[a] + Abs(newpos[Index(a)] - pos[a])
                          ELSE odo[a]],
          position |-> [a \in Linear |->
                          IF newpos[Index(a)] # pos[a]
                          THEN newpos[Index(a)] ELSE pos[a]],
          update_db |-> { TRUE : a \in { b \in Linear : newpos[Index(b)] # pos[b] } }]

\* wrapper(newpos, speed), the decorated toolhead.move; forwarded are the
\* calls of the original function it makes.
Move(newpos, speed) ==
    /\ handler = "idle"
    /\ ncalls < MaxCalls
    /\ ncalls' = ncalls + 1
    /\ LET t == Tracked(ignore_position, newpos, odometer, position)
       IN /\ odometer' = t.odometer
          /\ position' = t.position
          /\ update_db' = (update_db \/ t.update_db # {})
    /\ outcome' = [op |-> "move",
                   forwarded |-> <<[newpos |-> newpos, speed |-> speed]>>]
    /\ UNCHANGED <<gcode, client, ignore_position, db, thread, handler, pending>>

\* _motion_minder_thread: time.sleep(5) is over, self._update_db is set and
\* the lock is taken (the handlers hold it within one step only).
ThreadBegin ==
    /\ thread = "sleep"
    /\ update_db
    /\ thread' = "write"
    /\ UNCHANGED <<gcode, client, odometer, position, update_db, ignore_position, db,
                   handler, pending, outcome, ncalls>>

\* db["odometer"] = self._odometer
ThreadWrite ==
    /\ thread = "write"
    /\ db' = [db EXCEPT !.odometer = {odometer}]
    /\ thread' = "clear"
    /\ UNCHANGED <<gcode, client, odometer, position, update_db, ignore_position,
                   handler, pending, outcome, ncalls>>

\* self._update_db = False, and the lock is released
ThreadClear ==
    /\ thread = "clear"
    /\ update_db' = FALSE
    /\ thread' = "sleep"
    /\ UNCHANGED <<gcode, client, odometer, position, ignore_position, db, handler,
                   pending, outcome, ncalls>>

\* The lock is held by the thread.
Locked == thread # "sleep"

\* OdometerSet that adds the previous value whatever relative is.
RECURSIVE OdometerSetAdding(_, _, _, _)
OdometerSetAdding(odo, value, axes, relative) ==
    IF axes = <<>> THEN odo
    ELSE OdometerSetAdding([odo EXCEPT ![Head(axes)] = value + odo[Head(axes)]],
                           value, Tail(axes), relative)

\* for axis in axes: add_value = self._odometer[axis] if relative else 0
\*                   self._odometer[axis] = value + add_value
RECURSIVE OdometerSet(_, _, _, _)
OdometerSet(odo, value, axes, relative) ==
    IF axes = <<>> THEN odo
    ELSE OdometerSet([odo EXCEPT ![Head(axes)] =
                          value + (IF relative THEN odo[Head(axes)] ELSE 0)],
                     value, Tail(axes), relative)

\* for axis in axes: next_maintenance[axis] = value + add_value
\*                   maintenance_period[axis] = value
RECURSIVE MaintenanceSet(_, _, _, _, _)
MaintenanceSet(m, odo, value, axes, relative) ==
    IF axes = <<>> THEN m
    ELSE MaintenanceSet(
             [next |-> [m.next EXCEPT ![Head(axes)] =
                           {value + (IF relative THEN odo[Head(axes)] ELSE 0)}],
              period |-> [m.period EXCEPT ![Head(axes)] = {value}]],
             odo, value, Tail(axes), relative)

\* args.unit if args.unit is not None else "km"
UnitOrKm(a) == Get(a, "unit", "km")

\* _cmd_motion_minder, up to the first with self._lock: _Args validates the
\* parameters and its error leaves the command; a query goes on to
\* _return_odometer(args.unit), SET_ODOMETER sets self._odometer and goes on
\* to store it, SET_MAINTENANCE goes on to the database.
CmdMotionMinder(gcmd) ==
    /\ handler = "idle"
    /\ ncalls < MaxCalls
    /\ ncalls' = ncalls + 1
    /\ LET error == Validate(gcmd)
           a == Validated(gcmd)
           unit == UnitOrKm(a)
       IN IF error # {}
          THEN /\ outcome' = [op |-> "error", message |-> error]
               /\ UNCHANGED <<odometer, handler, pending>>
          ELSE /\ outcome' = NoOutcome
               /\ IF a.set_odometer = {} /\ a.set_maintenance = {}
                  THEN /\ handler' = "query"
                       /\ pending' = [NoArgs EXCEPT !.unit = a.unit]
                       /\ UNCHANGED odometer
                  ELSE IF a.set_odometer # {}
                       THEN /\ odometer' =
                                 OdometerSet(odometer,
                                     ConvertUnitToMm(
                                         CHOOSE v \in a.set_odometer : TRUE, unit),
                                     a.axes, Truthy(a.relative))
                            /\ handler' = "store"
                            /\ pending' = NoArgs
                       ELSE /\ handler' = "maintain"
                            /\ pending' =
                                 [value |-> ConvertUnitToMm(
                                       CHOOSE v \in a.set_maintenance : TRUE, unit),
                                  axes |-> a.axes,
                                  relative |-> Truthy(a.relative),
                                  unit |-> {}]
                            /\ UNCHANGED odometer
    /\ UNCHANGED <<gcode, client, position, update_db, ignore_position, db, thread>>

\* _set_odometer: with self._lock: db["odometer"] = self._odometer
StoreOdometer ==
    /\ handler = "store"
    /\ ~Locked
    /\ db' = [db EXCEPT !.odometer = {odometer}]
    /\ handler' = "stored"
    /\ UNCHANGED <<gcode, client, odometer, position, update_db, ignore_position,
                   thread, pending, outcome, ncalls>>

\* _set_maintenance: with self._lock: next_maintenance and maintenance_period
\* are read, set for the axes and stored, the period under the key
\* "maintenance" (the key "maintenance_period" it is read from is never
\* written).
StoreMaintenance ==
    /\ handler = "maintain"
    /\ ~Locked
    /\ LET m == MaintenanceSet(
                    [next |-> Get(db, "next_maintenance", NoneByAxis),
                     period |-> NoneByAxis],
                    odometer, pending.value, pending.axes, pending.relative)
       IN db' = [db EXCEPT !.next_maintenance = {m.next},
                           !.maintenance = {m.period}]
    /\ handler' = "maintained"
    /\ pending' = NoArgs
    /\ UNCHANGED <<gcode, client, odometer, position, update_db, ignore_position,
                   thread, outcome, ncalls>>

\* _return_odometer(required_unit): with self._lock the next maintenance is
\* read; the text made of it and of the odometer goes to respond_info, and
\* the command returns.
ReturnOdometer ==
    /\ handler \in {"query", "stored", "maintained"}
    /\ ~Locked
    /\ outcome' = [op |-> "info"]
    /\ handler' = "idle"
    /\ pending' = NoArgs
    /\ UNCHANGED <<gcode, client, odometer, position, update_db, ignore_position, db,
                   thread, ncalls>>

PluginNext ==
    \/ HomeBegin
    \/ HomeEnd
    \/ \E newpos \in NewPositions, speed \in Speeds : Move(newpos, speed)
    \/ \E gcmd \in Commands : CmdMotionMinder(gcmd)
    \/ StoreOdometer
    \/ StoreMaintenance
    \/ ReturnOdometer
    \/ ThreadBegin
    \/ ThreadWrite
    \/ ThreadClear

PluginSpec == PluginInit /\ [][PluginNext]_vars

----------------------------------------------------------------------------
(* The companion process: MoonrakerInterface of                            *)
(* src/motion_minder/motion_minder.py, its websocket callbacks and the     *)
(* thread that watches the state of Klipper                                *)

\* How often Klipper disconnects, at most.
MaxDisconnects == 2

\* What /server/info answers: klippy_state "ready" or "shutdown" with a 2xx
\* status, or a status that is not 2xx.
KlippyStates == {"ready", "shutdown", "unavailable"}

\* MoonrakerInterface.__init__ with connect_websocket=True: the websocket
\* thread and the state thread are started, nothing is subscribed yet.
SubscribeInit ==
    /\ NoReader
    /\ NoPlugin
    /\ NoCompanion
    /\ subscribed = FALSE
    /\ routine = "test"
    /\ klippy_state \in {"ready", "shutdown"}
    /\ inbox = <<>>
    /\ opened = FALSE
    /\ lost = FALSE
    /\ ndisconnects = 0

\* Klipper goes away: the server sends notify_klippy_disconnected to the
\* websocket clients connected.
KlippyDisconnects ==
    /\ klippy_state = "ready"
    /\ ndisconnects < MaxDisconnects
    /\ ndisconnects' = ndisconnects + 1
    /\ klippy_state' \in {"shutdown", "unavailable"}
    /\ inbox' = IF opened THEN Append(inbox, "notify_klippy_disconnected")
                ELSE inbox
    /\ UNCHANGED <<gcode, plugin, companion, subscribed, routine, opened, lost>>

\* Klipper is back: the server sends notify_klippy_ready.
KlippyReady ==
    /\ klippy_state # "ready"
    /\ klippy_state' = "ready"
    /\ inbox' = IF opened THEN Append(inbox, "notify_klippy_ready") ELSE inbox
    /\ UNCHANGED <<gcode, plugin, companion, subscribed, routine, opened, lost,
                   ndisconnects>>

\* _ws_on_open: if len(self._subscribe_objects) > 0: self._subscribe(...)
\* (PrinterOdometer subscribes to three objects).
WsOnOpen ==
    /\ ~opened
    /\ opened' = TRUE
    /\ lost' = FALSE
    /\ UNCHANGED <<gcode, plugin, companion, subscribed, routine, klippy_state, inbox,
                   ndisconnects>>

\* _process_klipper_state:
\* if state is not None and state == "notify_klippy_disconnected":
\*     self._subscribed = False
ProcessKlipperState(method) ==
    IF method = "notify_klippy_disconnected"
    THEN subscribed' = FALSE /\ lost' = TRUE
    ELSE UNCHANGED <<subscribed, lost>>

\* _ws_on_message, for the next message received.
WsOnMessage ==
    /\ opened
    /\ inbox # <<>>
    /\ inbox' = Tail(inbox)
    /\ ProcessKlipperState(Head(inbox))
    /\ UNCHANGED <<gcode, plugin, companion, routine, klippy_state, opened, ndisconnects>>

\* _check_klipper_state_routine: if not self._subscribed:
RoutineTest ==
    /\ routine = "test"
    /\ routine' = IF ~subscribed THEN "get" ELSE "sleep"
    /\ UNCHANGED <<gcode, plugin, companion, subscribed, klippy_state, inbox, opened, lost,
                   ndisconnects>>

\* klipper_state = requests.get(.../server/info); the status is 2xx and
\* klippy_state is "ready", or the routine goes to sleep
RoutineGet ==
    /\ routine = "get"
    /\ routine' = IF klippy_state = "ready" THEN "subscribe" ELSE "sleep"
    /\ UNCHANGED <<gcode, plugin, companion, subscribed, klippy_state, inbox, opened, lost,
                   ndisconnects>>

\* self._subscribe(self._subscribe_objects): the request is sent on the
\* websocket; send raises on a websocket that is not open, which the routine
\* catches and logs.
RoutineSubscribe ==
    /\ routine = "subscribe"
    /\ IF opened
       THEN lost' = FALSE /\ routine' = "set"
       ELSE lost' = lost /\ routine' = "sleep"
    /\ UNCHANGED <<gcode, plugin, companion, subscribed, klippy_state, inbox, opened,
                   ndisconnects>>

\* self._subscribed = True
RoutineSet ==
    /\ routine = "set"
    /\ subscribed' = TRUE
    /\ routine' = "sleep"
    /\ UNCHANGED <<gcode, plugin, companion, klippy_state, inbox, opened, lost,
                   ndisconnects>>

\* time.sleep(2) is over
RoutineWakes ==
    /\ routine = "sleep"
    /\ routine' = "test"
    /\ UNCHANGED <<gcode, plugin, companion, subscribed, klippy_state, inbox, opened, lost,
                   ndisconnects>>

Routine ==
    RoutineTest \/ RoutineGet \/ RoutineSubscribe \/ RoutineSet \/ RoutineWakes

SubscribeNext ==
    \/ KlippyDisconnects
    \/ KlippyReady
    \/ WsOnOpen
    \/ WsOnMessage
    \/ RoutineTest
    \/ RoutineGet
    \/ RoutineSubscribe
    \/ RoutineSet
    \/ RoutineWakes

\* The two threads are daemon threads that run as long as the process does:
\* the state thread keeps taking its steps, the websocket thread opens the
\* connection and calls back for every message received.
SubscribeSpec ==
    /\ SubscribeInit
    /\ [][SubscribeNext]_vars
    /\ WF_vars(Routine)
    /\ WF_vars(WsOnOpen)
    /\ WF_vars(WsOnMessage)

----------------------------------------------------------------------------
(* The companion process: PrinterOdometer and its GCodeReader of           *)
(* src/motion_minder/printer_odometer.py, MotionMinder.add_mileage and     *)
(* _process_history of src/motion_minder/motion_minder.py                  *)

\* Websocket messages and command line runs, at most.
MaxMessages == 3

\* The value of an optional that is not None.
The(optional) == CHOOSE value \in optional : TRUE

\* The file that is printed, "G1 X10 E5\nG0 XABC Y-4 E-2\n": its first line
\* ends at byte 10, its second one at byte 26.
PrintFile ==
    [lines |-> <<Line("G1", <<Num("X", "10", 10), Num("E", "5", 5)>>),
                 Line("G0", <<Txt("X", "ABC"), Num("Y", "-4", -4),
                              Num("E", "-2", -2)>>)>>,
     nlEnd |-> TRUE]

\* GCodeReader.__init__: a reader, and the lines it has read.
NewReader ==
    [mode |-> "absolute", extruder_mode |-> "absolute",
     last |-> Zero, total |-> Zero, nread |-> 0]

\* The loop of read(file_position, max_extrusion) on reader r of file f,
\* distances being the copy of the totals made when the call began.
RECURSIVE ReadLoop(_, _, _, _, _)
ReadLoop(f, r, fp, me, d) ==
    IF LimitReached(fp, Offset(f, r.nread)) \/ r.nread = Len(f.lines)
    THEN [reader |-> r, raised |-> FALSE]
    ELSE LET k == r.nread + 1
             next == [r EXCEPT !.nread = k]
         IN IF Command(f, k) \notin VALID_COMMANDS
            THEN ReadLoop(f, next, fp, me, d)
            ELSE IF Parse(f, k).raised
                 THEN [reader |-> next, raised |-> TRUE]
                 ELSE LET applied == Apply(next, Command(f, k), Parse(f, k).moves)
                      IN IF ExtrusionExceeded(me, d)
                         THEN [reader |-> applied, raised |-> FALSE]
                         ELSE ReadLoop(f, applied, fp, me, d)

\* read(file_position, max_extrusion): the reader after the call, and what
\* the call returns.
ReadCall(f, r, fp, me) ==
    LET out == ReadLoop(f, r, fp, me, r.total)
    IN [reader |-> out.reader,
        raised |-> out.raised,
        distances |-> Returned(out.reader.total, r.total)]

\* toolhead axis_minimum and axis_maximum, as get_obj("toolhead") gives them.
Limits == [min |-> [a \in Linear |-> 0], max |-> [a \in Linear |-> 10]]

\* A request of add_mileage that fails: the GET of the axis raises (no
\* connection), or it answers an error, or the POST answers an error.
NoFailure == [axis |-> "", kind |-> "none"]
Failures ==
    {NoFailure} \cup
    { [axis |-> "y", kind |-> k] : k \in {"get raises", "get error", "set error"} }

\* MotionMinder.add_mileage for the axes left, in the order x, y, z:
\* value = self.get_key_value(f"odometer_{name}")
\* if value is not None: axis_value += float(value)
\* self.set_key_value(f"odometer_{name}", axis_value)
RECURSIVE AddMileageFrom(_, _, _, _)
AddMileageFrom(db_, amounts, failure, axes) ==
    IF axes = <<>> THEN [db |-> db_, raised |-> FALSE]
    ELSE LET name == Head(axes)
             fails == failure.axis = name
         IN IF fails /\ failure.kind = "get raises"
            THEN [db |-> db_, raised |-> TRUE]
            ELSE LET value == IF fails /\ failure.kind = "get error"
                              THEN {} ELSE db_[name]
                     axis_value == amounts[name]
                                   + (IF value = {} THEN 0 ELSE The(value))
                     written == IF fails /\ failure.kind = "set error"
                                THEN db_
                                ELSE [db_ EXCEPT ![name] = {axis_value}]
                 IN AddMileageFrom(written, amounts, failure, Tail(axes))

AddMileage(db_, amounts, failure) ==
    AddMileageFrom(db_, amounts, failure, <<"x", "y", "z">>)

\* UpdateSingleAxisOdometer that takes 0 for a last position that is None.
UpdateSingleAxisOdometerFromZero(s, axis, value) ==
    [s EXCEPT !.diff[axis] = IF s.last[axis] # {}
                             THEN @ + Abs(value - The(s.last[axis]))
                             ELSE @ + Abs(value),
              !.last[axis] = {value}]

\* _update_single_axis_odometer
UpdateSingleAxisOdometer(s, axis, value) ==
    [s EXCEPT !.diff[axis] = IF s.last[axis] # {}
                             THEN @ + Abs(value - The(s.last[axis]))
                             ELSE @,
              !.last[axis] = {value}]

\* any(self._axis_max) is None or any(self._axis_min) is None: any() gives
\* True or False, neither of which is None.
AnyIsNone(limits) == FALSE

\* for i, axis in enumerate(["x", "y", "z"]), from the axes left; with
\* limits that are None the comparison raises TypeError for the first homed
\* axis, which ends the callback.
RECURSIVE LivePosition(_, _, _, _)
LivePosition(s, limits, live_position, axes) ==
    IF axes = <<>> THEN s
    ELSE LET axis == Head(axes)
             value == live_position[Index(axis)]
         IN IF axis \notin s.homed
            THEN LivePosition(s, limits, live_position, Tail(axes))
            ELSE IF limits = {}
                 THEN s
                 ELSE IF /\ The(limits).min[axis] <= value
                         /\ value <= The(limits).max[axis]
                      THEN LivePosition(UpdateSingleAxisOdometer(s, axis, value),
                                        limits, live_position, Tail(axes))
                      ELSE LivePosition(s, limits, live_position, Tail(axes))

\* _process_motion_report
ProcessMotionReport(s, limits, param) ==
    IF param.motion_report = {} \/ s.file # {}
    THEN s
    ELSE IF AnyIsNone(limits)
         THEN s
         ELSE LET live_position == The(param.motion_report).live_position
              IN IF live_position = {}
                 THEN s
                 ELSE LivePosition(s, limits, The(live_position),
                                   <<"x", "y", "z">>)

\* _process_toolhead
ProcessToolhead(s, param) ==
    IF param.toolhead = {}
    THEN s
    ELSE LET homed_axes == The(param.toolhead).homed_axes
         IN IF homed_axes # {} THEN [s EXCEPT !.homed = The(homed_axes)] ELSE s

\* _process_virtual_sdcard; queried is the file_path that
\* get_obj("virtual_sdcard") answers when it is asked.
ProcessVirtualSdcard(s, param, queried) ==
    IF param.virtual_sdcard = {}
    THEN s
    ELSE LET sdcard == The(param.virtual_sdcard)
         IN IF sdcard.is_active = {FALSE} /\ s.file # {}
            THEN [s EXCEPT !.file = {}]
            ELSE LET printing ==
                         IF s.file # {} THEN s.file
                         ELSE IF sdcard.file_path # {} THEN {NewReader}
                         ELSE IF queried # {} THEN {NewReader}
                         ELSE {}
                     position_ == IF sdcard.file_position = {}
                                      THEN {-1} ELSE sdcard.file_position
                 IN IF printing = {}
                    THEN s
                    ELSE LET call == ReadCall(PrintFile, The(printing),
                                              position_, NoArg)
                         IN [s EXCEPT
                               !.file = {call.reader},
                               !.lines = call.reader.nread - The(printing).nread,
                               !.diff = IF call.raised THEN @
                                        ELSE [a \in Linear |->
                                                 @[a] + call.distances[a]]]

\* _check_update_db_odometer; due is whether more than update_interval
\* seconds have passed since the last update.
CheckUpdateDbOdometer(s, due, failure) ==
    IF due /\ \E a \in Linear : s.diff[a] # 0
    THEN LET out == AddMileage(s.db, s.diff, failure)
         IN IF out.raised
            THEN [s EXCEPT !.db = out.db]
            ELSE [s EXCEPT !.db = out.db, !.diff = [a \in Linear |-> 0]]
    ELSE s

NoObject == {}
Param(motion_report, toolhead, virtual_sdcard) ==
    [motion_report |-> motion_report, toolhead |-> toolhead,
     virtual_sdcard |-> virtual_sdcard]
LivePositionAt(x, y, z) == {[live_position |-> {<<x, y, z, 0>>}]}
Sdcard(is_active, file_path, position_) ==
    {[is_active |-> is_active, file_path |-> file_path,
      file_position |-> position_]}

\* The status updates received: the objects of one notify_status_update.
Params ==
    { Param(LivePositionAt(2, 3, 0), NoObject, NoObject),
      Param(LivePositionAt(0, 3, 1), NoObject, NoObject),
      Param(LivePositionAt(12, 3, 1), NoObject, NoObject),
      Param({[live_position |-> {}]}, {[homed_axes |-> {}]}, NoObject),
      Param(NoObject, {[homed_axes |-> {{"x", "y"}}]}, NoObject),
      Param(NoObject, NoObject, Sdcard({TRUE}, {"a.gcode"}, {10})),
      Param(NoObject, NoObject, Sdcard({}, {}, {26})),
      Param(NoObject, NoObject, Sdcard({FALSE}, {}, {})),
      Param(NoObject, NoObject, Sdcard({FALSE}, {}, {26})) }

\* on_message, for a message with one dictionary in params: the four
\* callbacks in turn, an exception in one ending that one only.
OnMessage(param, queried, due, failure) ==
    /\ nmessages < MaxMessages
    /\ nmessages' = nmessages + 1
    /\ LET s0 == [diff |-> po_diff_dist, last |-> last_position,
                  file |-> printing_file, homed |-> homed_axis,
                  db |-> database, lines |-> 0]
           s1 == ProcessMotionReport(s0, axis_limits, param)
           s2 == ProcessToolhead(s1, param)
           s3 == ProcessVirtualSdcard(s2, param, queried)
           s4 == CheckUpdateDbOdometer(s3, due, failure)
       IN /\ po_diff_dist' = s4.diff
          /\ last_position' = s4.last
          /\ printing_file' = s4.file
          /\ homed_axis' = s4.homed
          /\ database' = s4.db
          /\ lines_read' = s4.lines
          /\ travelled' = [a \in Linear |->
                              travelled[a] + s3.diff[a] - po_diff_dist[a]]
    /\ UNCHANGED <<gcode, plugin, subscription, axis_limits, unclosed, adders>>

\* A job of the history: the file of each is the printed file.
Job(exists, status, filament_used) ==
    [exists |-> exists, status |-> status, filament_used |-> filament_used]

JobLists ==
    { <<>>,
      <<Job(TRUE, "complete", 5)>>,
      <<Job(FALSE, "complete", 5), Job(TRUE, "cancelled", 3)>> }

\* The loop of _process_history over the jobs left: the totals, and the
\* readers opened.
RECURSIVE HistoryLoop(_, _)
HistoryLoop(jobs, acc) ==
    IF jobs = <<>> THEN acc
    ELSE LET job == Head(jobs)
         IN IF ~job.exists
            THEN HistoryLoop(Tail(jobs), acc)
            ELSE LET limit == IF job.status # "complete"
                                      THEN {job.filament_used} ELSE NoArg
                     call == ReadCall(PrintFile, NewReader, NoArg, limit)
                 IN HistoryLoop(Tail(jobs),
                       [total |-> [a \in Linear |->
                                      acc.total[a] + call.distances[a]],
                        opened |-> acc.opened + 1,
                        closed |-> acc.closed])

\* python3 motion_minder.py --process-history: _process_history, that reads
\* the file of every job and adds the totals with mm.add_mileage.
ProcessHistory(jobs) ==
    /\ nmessages < MaxMessages
    /\ nmessages' = nmessages + 1
    /\ LET done == HistoryLoop(jobs, [total |-> [a \in Linear |-> 0],
                                      opened |-> 0, closed |-> 0])
       IN /\ unclosed' = unclosed + done.opened - done.closed
          /\ database' = AddMileage(database, done.total, NoFailure).db
          /\ travelled' = [a \in Linear |-> travelled[a] + done.total[a]]
    /\ UNCHANGED <<gcode, plugin, subscription, po_diff_dist, last_position,
                   printing_file, homed_axis, axis_limits, lines_read, adders>>

\* The databases the companion process finds: no odometer yet, or one.
Databases ==
    { [a \in Linear |-> {}],
      [x |-> {5}, y |-> {0}, z |-> {1}] }

\* PrinterOdometer.__init__: the homed axes and the limits are what
\* get_obj("toolhead") answers, nothing when the request fails.
CompanionInit ==
    /\ NoReader
    /\ NoPlugin
    /\ NoSubscription
    /\ po_diff_dist = [a \in Linear |-> 0]
    /\ last_position = [a \in Linear |-> {}]
    /\ printing_file = {}
    /\ homed_axis \in {{}, {"x", "y", "z"}}
    /\ axis_limits \in {{}, {Limits}}
    /\ database \in Databases
    /\ travelled = [a \in Linear |->
                       IF database[a] = {} THEN 0 ELSE The(database[a])]
    /\ unclosed = 0
    /\ lines_read = 0
    /\ nmessages = 0
    /\ adders = NoAdders

\* What get_obj("virtual_sdcard") may answer for param: it is asked for a
\* virtual_sdcard status only.
Queried(param) ==
    IF param.virtual_sdcard = {} THEN {{}} ELSE {{}, {"a.gcode"}}

\* How the requests of the flush may fail: there are requests only when it
\* is due.
FailuresWhen(due) == IF due THEN Failures ELSE {NoFailure}

CompanionNext ==
    \/ \E param \in Params, due \in BOOLEAN :
          \E queried \in Queried(param), failure \in FailuresWhen(due) :
             OnMessage(param, queried, due, failure)
    \/ \E jobs \in JobLists : ProcessHistory(jobs)

CompanionSpec == CompanionInit /\ [][CompanionNext]_vars

----------------------------------------------------------------------------
(* MotionMinder.add_mileage, request by request: the companion process and
   the command line are two processes with one database; Moonraker answers
   one request at a time *)

\* The calls of add_mileage a client makes at most.
MaxAdds == 1

\* What a call adds, all three axes given (PrinterOdometer passes its
\* _diff_dist, _process_history its totals).
Mileages ==
    { [x |-> 2, y |-> 0, z |-> 1],
      [x |-> 3, y |-> 4, z |-> 0] }

StoreInit ==
    /\ NoReader
    /\ NoPlugin
    /\ NoSubscription
    /\ po_diff_dist = [a \in Linear |-> 0]
    /\ last_position = [a \in Linear |-> {}]
    /\ printing_file = {}
    /\ homed_axis = {}
    /\ axis_limits = {}
    /\ database \in Databases
    /\ travelled = [a \in Linear |->
                       IF database[a] = {} THEN 0 ELSE The(database[a])]
    /\ unclosed = 0
    /\ lines_read = 0
    /\ nmessages = 0
    /\ adders = NoAdders

\* add_mileage(x, y, z) is called by client c.
AddBegin(c, amounts) ==
    /\ adders[c].pc = "idle"
    /\ adders[c].calls < MaxAdds
    /\ adders' = [adders EXCEPT ![c] = [pc |-> "get", calls |-> @.calls + 1,
                                        axes |-> <<"x", "y", "z">>,
                                        amounts |-> amounts, value |-> {}]]
    /\ travelled' = [a \in Linear |-> travelled[a] + amounts[a]]
    /\ UNCHANGED <<gcode, plugin, subscription, po_diff_dist, last_position,
                   printing_file, homed_axis, axis_limits, database, unclosed,
                   lines_read, nmessages>>

\* value = self.get_key_value(f"odometer_{name}")
AddGet(c) ==
    /\ adders[c].pc = "get"
    /\ adders' = [adders EXCEPT ![c].pc = "set",
                                ![c].value = database[Head(adders[c].axes)]]
    /\ UNCHANGED <<gcode, plugin, subscription, po_diff_dist, last_position,
                   printing_file, homed_axis, axis_limits, database, travelled,
                   unclosed, lines_read, nmessages>>

\* if value is not None: axis_value += float(value)
\* self.set_key_value(f"odometer_{name}", axis_value), and the next axis.
AddSet(c) ==
    /\ adders[c].pc = "set"
    /\ LET name == Head(adders[c].axes)
           axis_value == adders[c].amounts[name]
                         + (IF adders[c].value = {} THEN 0
                            ELSE The(adders[c].value))
       IN database' = [database EXCEPT ![name] = {axis_value}]
    /\ adders' = [adders EXCEPT ![c].axes = Tail(@),
                                ![c].value = {},
                                ![c].pc = IF Len(adders[c].axes) = 1
                                          THEN "idle" ELSE "get"]
    /\ UNCHANGED <<gcode, plugin, subscription, po_diff_dist, last_position,
                   printing_file, homed_axis, axis_limits, travelled, unclosed,
                   lines_read, nmessages>>

StoreNext ==
    \/ \E c \in Clients, amounts \in Mileages : AddBegin(c, amounts)
    \/ \E c \in Clients : AddGet(c)
    \/ \E c \in Clients : AddSet(c)

StoreSpec == StoreInit /\ [][StoreNext]_vars

----------------------------------------------------------------------------
(* What the properties below speak of *)

\* Line k of f is a G0/G1 line, which read() processes as a move.
IsMove(f, k) ==
    /\ Command(f, k) \in {"G1", "G0"}
    /\ ~Parse(f, k).raised

\* Line k of f gives a coordinate for axis a.
Gives(f, a, k) == Named(Parse(f, k).moves, a)
Coord(f, a, k) == Parse(f, k).moves[Upper(a)]

\* The reader after the first k lines of f were read, whatever the calls
\* that read them: a line that is skipped or raises leaves it as it is.
Fresh == [mode |-> "absolute", extruder_mode |-> "absolute",
          last |-> Zero, total |-> Zero]

RECURSIVE After(_, _)
After(f, k) ==
    IF k = 0 THEN Fresh
    ELSE IF Command(f, k) \in VALID_COMMANDS /\ ~Parse(f, k).raised
         THEN Apply(After(f, k - 1), Command(f, k), Parse(f, k).moves)
         ELSE After(f, k - 1)

\* This step reads a line.
Consumes == pc = "read" /\ nread' = nread + 1

\* The last call has returned.
HasReturned == pc = "idle" /\ result.kind = "returned"

\* The E-bearing moves processed by the last call.
EMoves == { k \in (start + 1)..nread : IsMove(file, k) /\ Gives(file, "e", k) }
LastEMove == CHOOSE k \in EMoves : \A j \in EMoves : j <= k

----------------------------------------------------------------------------
(* C1 *)

\* C1: read(max_extrusion=m) stops as soon as the extrusion accumulated by
\* this call exceeds m: once the e total has grown by more than m since the
\* call began, no further line is read.
C1_StopsWhenExceeded ==
    [][(pc = "read" /\ \E m \in max_extrusion :
                          total_distances["e"] - distances["e"] > m)
       => nread' = nread]_vars

----------------------------------------------------------------------------
(* C2 *)

----------------------------------------------------------------------------
(* C3 *)

\* The file is "G1 X10 E5", "G1 X20 E5", after a "G90" line or not, and one
\* call on the fresh reader has read it all.
C3_Scenario ==
    /\ HasReturned
    /\ start = 0
    /\ nread = Len(file.lines)
    /\ \E pre \in {<<>>, <<Line("G90", <<>>)>>} :
          file.lines = pre \o
              << Line("G1", <<Num("X", "10", 10), Num("E", "5", 5)>>),
                 Line("G1", <<Num("X", "20", 20), Num("E", "5", 5)>>) >>

\* C3: scanning "G1 X10 E5" then "G1 X20 E5" on a fresh reader returns
\* e = 5.0 and x = 20.0.
C3_ReturnsE5X20 ==
    C3_Scenario => result.distances["e"] = 5 /\ result.distances["x"] = 20

----------------------------------------------------------------------------
(* C4 *)

\* C4: the accumulated distance of X, Y and Z never decreases from one
\* processed line to the next.
C4_NeverDecreases ==
    [][\A a \in Linear : total_distances'[a] >= total_distances[a]]_vars

----------------------------------------------------------------------------
(* C5 *)

\* The last coordinate given for axis a in the first n lines, 0 if none.
RECURSIVE LastCoord(_, _, _)
LastCoord(f, a, n) ==
    IF n = 0 THEN 0
    ELSE IF Gives(f, a, n) THEN Coord(f, a, n) ELSE LastCoord(f, a, n - 1)

\* Sum of |p_i - p_(i-1)| over the coordinates given for a in the first n
\* lines, p_0 = 0.
RECURSIVE PathLength(_, _, _)
PathLength(f, a, n) ==
    IF n = 0 THEN 0
    ELSE PathLength(f, a, n - 1)
         + (IF Gives(f, a, n)
            THEN Abs(Coord(f, a, n) - LastCoord(f, a, n - 1))
            ELSE 0)

\* Every line read so far is a G0/G1 move.
OnlyMoves == \A k \in 1..nread : IsMove(file, k)

\* C5: after a sequence of G0/G1 moves on a fresh reader (absolute mode, no
\* mode switch), the accumulated distance of each of X, Y, Z is the sum of
\* |p_i - p_(i-1)| over the coordinates given for it, p_0 = 0.
C5_AbsoluteSum ==
    OnlyMoves =>
        \A a \in Linear : total_distances[a] = PathLength(file, a, nread)

\* Three moves were read: X went to 20 and back to 10, Y to -4.
C5_Witness ==
    /\ OnlyMoves
    /\ nread = 3
    /\ total_distances["x"] = 30
    /\ total_distances["y"] = 4

----------------------------------------------------------------------------
(* C6 *)

\* C6: a G0/G1 move processed while the linear mode is relative adds to the
\* accumulated distance of each of X, Y, Z exactly the signed value given
\* for it (nothing when the axis is not given), so a sequence of them adds
\* the sum of the values.
C6_RelativeSum ==
    [][(Consumes /\ mode = "relative" /\ IsMove(file, nread + 1)) =>
        \A a \in Linear :
            total_distances'[a] = total_distances[a]
                + (IF Gives(file, a, nread + 1)
                   THEN Coord(file, a, nread + 1) ELSE 0)]_vars

\* After "G91 ;r", two X moves and a Y move to -4 were read in some order:
\* a relative move added its signed value.
C6_Witness ==
    /\ mode = "relative"
    /\ Command(file, 1) = "G91"
    /\ nread = 3
    /\ \A k \in 2..3 : IsMove(file, k)
    /\ total_distances["x"] \in {10, 20}
    /\ total_distances["y"] = -4

----------------------------------------------------------------------------
(* C7 *)

----------------------------------------------------------------------------
(* C8 *)

\* What one read(file_position=p) returns on a fresh reader of f, that has
\* read n lines and is in state s.
RECURSIVE FreshRead(_, _, _, _)
FreshRead(f, p, n, s) ==
    IF LimitReached({p}, Offset(f, n)) \/ n = Len(f.lines)
    THEN [kind |-> "returned", distances |-> Returned(s.total, Zero)]
    ELSE IF Command(f, n + 1) \notin VALID_COMMANDS
         THEN FreshRead(f, p, n + 1, s)
         ELSE IF Parse(f, n + 1).raised
              THEN [kind |-> "IndexError", distances |-> Zero]
              ELSE FreshRead(f, p, n + 1,
                             Apply(s, Command(f, n + 1), Parse(f, n + 1).moves))

\* C8: after successive read(file_position=offset) calls with non-decreasing
\* offsets on line boundaries, the sums of the X, Y, Z values returned equal
\* what one read(file_position=last offset) returns on a fresh reader.
C8_ResumedEqualsFresh ==
    (HasReturned /\ seq.ok) =>
        \A p \in seq.last :
            LET one == FreshRead(file, p, 0, Fresh)
            IN /\ one.kind = "returned"
               /\ \A a \in Linear : diff_dist[a] = one.distances[a]

\* Two calls have each read lines and each returned a distance on X.
C8_Witness ==
    /\ HasReturned
    /\ seq.ok
    /\ seq.last # NoArg
    /\ 0 < start
    /\ start < nread
    /\ 0 < result.distances["x"]
    /\ result.distances["x"] < diff_dist["x"]

----------------------------------------------------------------------------
(* C9 *)

\* C9: a G92 line changes no accumulated distance and neither mode; it sets
\* the last position of the axes it names and of no other.
C9_ResetFrame ==
    [][(Consumes /\ Command(file, nread + 1) = "G92"
                 /\ ~Parse(file, nread + 1).raised) =>
        /\ total_distances' = total_distances
        /\ mode' = mode
        /\ extruder_mode' = extruder_mode
        /\ \A a \in Axes :
              last_positions'[a] =
                  IF Gives(file, a, nread + 1)
                  THEN Coord(file, a, nread + 1)
                  ELSE last_positions[a]]_vars

\* "G92 X7 E3" was read in relative mode, after a move of Y to -4: X and E
\* are re-origined, Y and the distances are as the move left them.
C9_Witness ==
    /\ nread = 3
    /\ mode = "relative"
    /\ Command(file, 3) = "G92"
    /\ last_positions["x"] = 7
    /\ last_positions["e"] = 3
    /\ last_positions["y"] = -4
    /\ total_distances["y"] = -4

----------------------------------------------------------------------------
(* C10 *)

\* Line k of f has a parameter token that selects axis a and is a float.
HasFloatFor(f, a, k) ==
    \E i \in 1..Len(f.lines[k].values) :
        /\ f.lines[k].values[i].sel = Upper(a)
        /\ f.lines[k].values[i].isFloat

\* Line k of f has a parameter token that is no selector followed by a float.
HasMalformed(f, k) ==
    \E i \in 1..Len(f.lines[k].values) : ~f.lines[k].values[i].isFloat

\* C10: whatever the parameter tokens of a recognized line (empty tokens of
\* consecutive or trailing spaces included), read() raises no error, and an
\* axis for which the line has no selector-and-float token keeps its last
\* position and its accumulated distance.
C10_MalformedIgnored ==
    [][/\ result'.kind \notin {"IndexError", "ValueError"}
       /\ Consumes =>
             \A a \in Axes :
                 HasFloatFor(file, a, nread + 1)
                 \/ /\ last_positions'[a] = last_positions[a]
                    /\ total_distances'[a] = total_distances[a]]_vars

\* A call has returned after it read a move to X10, "G1  Z2 " and
\* "G0 XABC Y-4 E-2": Z and Y moved, X stayed where it was.
C10_Witness ==
    /\ HasReturned
    /\ start = 0
    /\ nread = 3
    /\ \E k \in 1..3 : EmptyTok \in { file.lines[k].values[i] :
                                        i \in 1..Len(file.lines[k].values) }
    /\ IsMove(file, 3)
    /\ HasMalformed(file, 3)
    /\ ~HasFloatFor(file, "x", 3)
    /\ last_positions["x"] = 10
    /\ result.distances["x"] = 10
    /\ result.distances["z"] = 2
    /\ result.distances["y"] = 4

----------------------------------------------------------------------------
(* C11 *)

\* C11: both modes are absolute on a fresh reader; a processed G90 sets both
\* modes to absolute, G91 sets both to relative, M82 sets the extruder mode to
\* absolute and M83 sets it to relative, both leaving the linear mode as it is.
C11_ModeSwitches ==
    [][/\ nread = 0 => (mode = "absolute" /\ extruder_mode = "absolute")
       /\ Consumes =>
             LET command == Command(file, nread + 1)
             IN /\ command = "G90" =>
                      (mode' = "absolute" /\ extruder_mode' = "absolute")
                /\ command = "G91" =>
                      (mode' = "relative" /\ extruder_mode' = "relative")
                /\ command = "M82" =>
                      (mode' = mode /\ extruder_mode' = "absolute")
                /\ command = "M83" =>
                      (mode' = mode /\ extruder_mode' = "relative")]_vars

\* G91 and then M82 were processed: the linear mode is still relative, the
\* extruder mode is absolute again.
C11_Witness ==
    /\ nread = 2
    /\ Command(file, 1) = "G91"
    /\ Command(file, 2) = "M82"
    /\ mode = "relative"
    /\ extruder_mode = "absolute"

----------------------------------------------------------------------------
(* C12 *)

\* C12: a call read(file_position=p) that finds the read cursor at or beyond
\* p returns at once: it returns zero for x, y, z and e, and the read cursor,
\* the modes, the last positions and the accumulated distances are unchanged.
C12_ReturnsZeroAtLimit ==
    [][(pc = "read" /\ nread = start
                    /\ \E p \in file_position : p <= Tell) =>
        /\ pc' = "idle"
        /\ result' = [kind |-> "returned", distances |-> Zero]
        /\ nread' = nread
        /\ reader' = reader]_vars

\* After read(file_position=p) read lines up to p and accumulated a distance
\* on X, a second read(file_position=p) has returned zero without reading.
C12_Witness ==
    /\ HasReturned
    /\ start = nread
    /\ nread > 0
    /\ seq.ok
    /\ \E p \in seq.last : p <= Tell
    /\ total_distances["x"] > 0
    /\ result.distances = Zero

----------------------------------------------------------------------------
(* C13 *)

\* C13: a line whose command token is not in VALID_COMMANDS raises no error,
\* changes no mode, no last position and no accumulated distance, and the
\* call goes on to the next line.
C13_UnrecognizedSkipped ==
    [][(Consumes /\ Command(file, nread + 1) \notin VALID_COMMANDS) =>
        /\ reader' = reader
        /\ pc' = "read"
        /\ result' = NoResult
        /\ nread' = nread + 1]_vars

\* One call read a move, then "M104 S200", then a move that it processed.
C13_Witness ==
    /\ HasReturned
    /\ start = 0
    /\ nread = 3
    /\ IsMove(file, 1)
    /\ file.lines[2].cmd = "M104"
    /\ IsMove(file, 3)
    /\ total_distances["x"] = 30

----------------------------------------------------------------------------
(* C14 *)

----------------------------------------------------------------------------
(* C20 *)

\* The mode under which a G0/G1 line takes the coordinate of axis a.
ModeOf(a) == IF a = "e" THEN extruder_mode ELSE mode

\* C20: after a processed move or reset, the last position of each axis the
\* line names is the coordinate the line implies: the given value for a G92
\* and for a move in absolute mode, the previous position plus the given value
\* for a move in relative mode.
C20_PositionImplied ==
    [][(Consumes /\ Command(file, nread + 1) \in {"G0", "G1", "G92"}) =>
        \A a \in Axes :
            Gives(file, a, nread + 1) =>
                last_positions'[a] =
                    IF \/ Command(file, nread + 1) = "G92"
                       \/ ModeOf(a) = "absolute"
                    THEN Coord(file, a, nread + 1)
                    ELSE last_positions[a] + Coord(file, a, nread + 1)]_vars

----------------------------------------------------------------------------
(* C15 *)

\* The call of the original toolhead.move with these arguments, and no other.
Forwarded(newpos, speed) == <<[newpos |-> newpos, speed |-> speed]>>

\* C15: every toolhead.move call adds |newpos[axis] - tracked position[axis]|
\* to the odometer of each axis when the toolhead is not homing and nothing
\* when it is, so that the odometer is its initial value plus the sum of
\* these over the moves made while not homing; it decreases the odometer of
\* no axis, and calls the wrapped function once, with the same arguments.
C15_OdometerSumsMoves ==
    [][\A newpos \in NewPositions, speed \in Speeds :
          Move(newpos, speed) =>
              /\ \A a \in Linear :
                    /\ odometer'[a] = odometer[a]
                          + (IF ignore_position THEN 0
                             ELSE Abs(newpos[Index(a)] - position[a]))
                    /\ odometer'[a] >= odometer[a]
              /\ outcome' = [op |-> "move", forwarded |-> Forwarded(newpos, speed)]
      ]_vars

\* From the stored odometer x 5, y 0, z 1, two moves were made while not
\* homing, to (2, 3, 0) and back on X to (0, 3, 1).
C15_Witness ==
    /\ ncalls = 2
    /\ ~ignore_position
    /\ position = [x |-> 0, y |-> 3, z |-> 1]
    /\ odometer = [x |-> 9, y |-> 3, z |-> 2]

----------------------------------------------------------------------------
(* C16 *)

\* C16: a toolhead.move call made between homing_move_begin and the next
\* homing_move_end changes neither the odometer nor the tracked position nor
\* _update_db, and calls the original function with its arguments.
C16_HomingMovesIgnored ==
    [][\A newpos \in NewPositions, speed \in Speeds :
          (ignore_position /\ Move(newpos, speed)) =>
              /\ odometer' = odometer
              /\ position' = position
              /\ update_db' = update_db
              /\ outcome'.forwarded = Forwarded(newpos, speed)]_vars

\* After a move to (2, 3, 0) was flushed, a move to (0, 3, 1) was made while
\* homing: it was forwarded, the tracked position and the flag are as before.
C16_Witness ==
    /\ ignore_position
    /\ ncalls = 2
    /\ outcome = [op |-> "move", forwarded |-> Forwarded(<<0, 3, 1, 2>>, 50)]
    /\ position = [x |-> 2, y |-> 3, z |-> 0]
    /\ odometer = [x |-> 2, y |-> 3, z |-> 0]
    /\ ~update_db

----------------------------------------------------------------------------
(* C17 *)

\* The command fails validation: an unknown parameter, both SET_ODOMETER and
\* SET_MAINTENANCE, an AXES character outside x/y/z (in either case), an axis
\* twice, a UNIT other than mm/m/km, a RELATIVE that is no accepted value.
FailsValidation(gcmd) ==
    \/ gcmd.others # {}
    \/ gcmd.SET_ODOMETER # {} /\ gcmd.SET_MAINTENANCE # {}
    \/ \E chars \in gcmd.AXES :
          \/ \E i \in DOMAIN chars : Lower(chars[i]) \notin {"x", "y", "z"}
          \/ \E i, j \in DOMAIN chars : i # j /\ Lower(chars[i]) = Lower(chars[j])
    \/ \E text \in gcmd.UNIT : Lower(text) \notin {"mm", "m", "km"}
    \/ \E text \in gcmd.RELATIVE :
          Lower(text) \notin {"true", "yes", "1", "false", "no", "0"}

FailingCommands == { gcmd \in Commands : FailsValidation(gcmd) }

\* C17: a MOTION_MINDER command that fails validation raises an error and
\* has no effect: the odometer in memory and the stored odometer,
\* next_maintenance and maintenance are unchanged, and the command is over.
C17_InvalidRejected ==
    [][\A gcmd \in FailingCommands :
          CmdMotionMinder(gcmd) =>
              /\ outcome'.op = "error"
              /\ odometer' = odometer
              /\ db' = db
              /\ handler' = "idle"]_vars

\* After SET_ODOMETER=3 set and stored 3 km for every axis, a command with
\* an unknown unit was rejected.
C17_Witness ==
    /\ ncalls = 2
    /\ outcome = [op |-> "error", message |-> {"Invalid unit."}]
    /\ odometer = [a \in Linear |-> 3000000]
    /\ db.odometer = {odometer}

----------------------------------------------------------------------------
(* C18 *)

\* The commands that give RELATIVE with an accepted value and neither
\* SET_ODOMETER nor SET_MAINTENANCE.
RelativeAlone ==
    { gcmd \in Commands :
        /\ \E text \in gcmd.RELATIVE :
              Lower(text) \in {"true", "yes", "1", "false", "no", "0"}
        /\ gcmd.SET_ODOMETER = {}
        /\ gcmd.SET_MAINTENANCE = {} }

\* C18: a MOTION_MINDER command that gives RELATIVE with an accepted value
\* and neither SET_ODOMETER nor SET_MAINTENANCE is rejected with an error.
C18_RelativeNeedsSet ==
    [][\A gcmd \in RelativeAlone :
          CmdMotionMinder(gcmd) => outcome'.op = "error"]_vars

----------------------------------------------------------------------------
(* C19 *)

\* The axes a command names, all three when it gives no AXES.
Names(gcmd, a) ==
    gcmd.AXES = {} \/ \E chars \in gcmd.AXES :
                         \E i \in DOMAIN chars : Lower(chars[i]) = a

\* The value of SET_ODOMETER in millimetres; the unit is km when none is given.
InMillimetres(gcmd) ==
    LET value == CHOOSE v \in gcmd.SET_ODOMETER : TRUE
    IN IF gcmd.UNIT = {} \/ \E text \in gcmd.UNIT : Lower(text) = "km"
       THEN value * 1000 * 1000
       ELSE IF \E text \in gcmd.UNIT : Lower(text) = "m"
            THEN value * 1000
            ELSE value

RelativeIsTrue(gcmd) ==
    \E text \in gcmd.RELATIVE : Lower(text) \in {"true", "yes", "1"}

\* The SET_ODOMETER commands that pass validation.
OdometerCommands ==
    { gcmd \in Commands \ FailingCommands : gcmd.SET_ODOMETER # {} }

\* C19: SET_ODOMETER sets the odometer of each axis named in AXES to the
\* value in mm, plus the previous odometer when RELATIVE is true, and leaves
\* the other axes; when the command returns, the stored odometer is the one
\* in memory.
C19_SetOdometer ==
    [][/\ \A gcmd \in OdometerCommands :
            CmdMotionMinder(gcmd) =>
                \A a \in Linear :
                    odometer'[a] =
                        IF Names(gcmd, a)
                        THEN InMillimetres(gcmd)
                             + (IF RelativeIsTrue(gcmd) THEN odometer[a] ELSE 0)
                        ELSE odometer[a]
       /\ (handler = "stored" /\ handler' = "idle") =>
             db'.odometer = {odometer'}]_vars

\* SET_ODOMETER=3 AXES=Yz UNIT=M RELATIVE=true has returned: X is as it was
\* stored, Y and Z are 3000 mm further, and the odometer is stored again.
C19_Witness ==
    /\ handler = "idle"
    /\ outcome = [op |-> "info"]
    /\ ncalls = 1
    /\ odometer = [x |-> 5, y |-> 3000, z |-> 3001]
    /\ db.odometer = {odometer}

----------------------------------------------------------------------------
(* C21 *)

ModeCommands == {"G90", "G91", "M82", "M83"}

\* Line i of f is a mode command alone, ended by its newline.
BareModeLine(f, i) ==
    /\ f.lines[i].cmd \in ModeCommands
    /\ f.lines[i].values = <<>>
    /\ HasNewline(f, i)

\* C21: a line that is only a mode command and its newline is recognized as
\* that command: reading it switches the modes exactly as the same command
\* followed by a space and parameters does.
C21_BareLineSwitches ==
    [][(Consumes /\ BareModeLine(file, nread + 1)) =>
          LET s == Apply(Self, file.lines[nread + 1].cmd, <<>>)
          IN /\ mode' = s.mode
             /\ extruder_mode' = s.extruder_mode]_vars

----------------------------------------------------------------------------
(* C22 *)

\* C22: the linear mode and the extruder mode change only in the step that
\* processes a line whose command is G90, G91, M82 or M83: moves, G92,
\* unrecognized lines, the end of the input, a stop at the byte offset or at
\* the extrusion limit and the start of a call leave both as they are.
C22_ModesChangeOnModeLines ==
    [][(mode' # mode \/ extruder_mode' # extruder_mode) =>
          /\ Consumes
          /\ Command(file, nread + 1) \in ModeCommands]_vars

\* A second call has begun and returned without reading after a first one
\* processed G91, a move and G92: both modes are still relative.
C22_Witness ==
    /\ HasReturned
    /\ start = 3
    /\ nread = 3
    /\ Command(file, 1) = "G91"
    /\ IsMove(file, 2)
    /\ Command(file, 3) = "G92"
    /\ mode = "relative"
    /\ extruder_mode = "relative"

----------------------------------------------------------------------------
(* C23 *)

\* C23: in no reachable state is _update_db false, no flush in progress (the
\* thread sleeps and no command is storing) and the stored odometer other
\* than the one in memory: what a move adds to the odometer is either
\* written or still flagged for the thread to write.
C23_FlushedOrFlagged ==
    (~update_db /\ thread = "sleep" /\ handler = "idle") =>
        Get(db, "odometer", ZeroOdometer) = odometer

----------------------------------------------------------------------------
(* C24 *)

\* C24: whenever a notify_klippy_disconnected has been processed and the
\* server reports klippy_state "ready" from then on, a
\* printer.objects.subscribe request is eventually sent after that
\* notification, whatever the interleaving of the websocket callback with
\* the state thread.
C24_Resubscribes ==
    []((lost /\ [](klippy_state = "ready")) => <>(~lost))

----------------------------------------------------------------------------
(* C25 *)

\* C25: every GCodeReader a caller of this repository opens is closed by
\* that caller: when _process_history has returned, it has closed every
\* reader it opened (PrinterOdometer holds the one reader of the running
\* print in _printing_file and opens another only when that is None).
C25_ReadersClosed ==
    unclosed = 0

----------------------------------------------------------------------------
(* C26 *)

\* The status updates that report virtual_sdcard.is_active false.
InactiveParams ==
    { param \in Params :
        \E sdcard \in param.virtual_sdcard : sdcard.is_active = {FALSE} }

\* C26: after PrinterOdometer has processed a message whose
\* virtual_sdcard.is_active is false, _printing_file is None, and no line of
\* a file was read for it.
C26_NoReaderWhenInactive ==
    [][\A param \in InactiveParams, due \in BOOLEAN :
          \A queried \in Queried(param), failure \in FailuresWhen(due) :
          OnMessage(param, queried, due, failure) =>
              /\ printing_file' = {}
              /\ lines_read' = 0]_vars

----------------------------------------------------------------------------
(* C27 *)

\* What is under odometer_<axis>, 0 when the key does not exist.
Stored(a) == IF database[a] = {} THEN 0 ELSE The(database[a])

\* C27: after any messages and flushes, a flush in which a request of
\* add_mileage fails included, the stored odometer of each axis plus the
\* pending _diff_dist of that axis is what was stored at first plus all
\* the distance accumulated for that axis: every distance is added to the
\* store once, and _diff_dist is reset only after it was added.
C27_Conserved ==
    \A a \in Linear : Stored(a) + po_diff_dist[a] = travelled[a]

----------------------------------------------------------------------------
(* C28 *)

\* C28: add_mileage is atomic with respect to the other writers of the
\* store: when the calls of the two clients have returned, the value under
\* odometer_<axis> is what was there at first plus everything the calls
\* added; no update is lost.
C28_NoLostUpdate ==
    (\A c \in Clients : adders[c].pc = "idle") =>
        \A a \in Linear : Stored(a) = travelled[a]

----------------------------------------------------------------------------
(* C29 *)

\* The status updates with a motion_report and no virtual_sdcard.
MotionParams ==
    { param \in Params : param.motion_report # {} /\ param.virtual_sdcard = {} }

\* The live position of axis a in param, if it has one.
Live(param, a) ==
    { live_position[Index(a)] :
        live_position \in The(param.motion_report).live_position }

\* Axis a is homed and its live position lies within [axis_min, axis_max].
Accepted(param, a) ==
    /\ printing_file = {}
    /\ a \in homed_axis
    /\ \E value \in Live(param, a), limits \in axis_limits :
          limits.min[a] <= value /\ value <= limits.max[a]

\* What the report adds for axis a: nothing for its first accepted position.
Added(param, a) ==
    IF Accepted(param, a) /\ last_position[a] # {}
    THEN Abs(The(Live(param, a)) - The(last_position[a]))
    ELSE 0

\* C29: while a print file is open a motion_report changes neither
\* _diff_dist nor _last_position; outside a print it adds |value - last
\* position| to _diff_dist[axis] for the axes that are homed and whose value
\* lies within [axis_min, axis_max], nothing for the first accepted position
\* of an axis, and nothing for the other axes (the distance added is still
\* in _diff_dist after the message unless the flush was due in it).
C29_MotionReportFrame ==
    [][\A param \in MotionParams, due \in BOOLEAN :
          \A queried \in Queried(param), failure \in FailuresWhen(due) :
          OnMessage(param, queried, due, failure) =>
              \A a \in Linear :
                 /\ last_position'[a] = IF Accepted(param, a)
                                        THEN Live(param, a)
                                        ELSE last_position[a]
                 /\ travelled'[a] = travelled[a] + Added(param, a)
                 /\ ~due => po_diff_dist'[a] = po_diff_dist[a] + Added(param, a)
      ]_vars

\* Outside a print, with all axes homed, the live positions (2, 3, 0) and
\* (0, 3, 1) were reported: the first added nothing, the second 2 on X and
\* 1 on Z.
C29_Witness ==
    /\ nmessages = 2
    /\ printing_file = {}
    /\ last_position = [x |-> {0}, y |-> {3}, z |-> {1}]
    /\ po_diff_dist = [x |-> 2, y |-> 0, z |-> 1]

====
